---- MODULE Spec2Model ----
(***************************************************************************)
(* A model of src/app.py: a Streamlit page that talks to Snowflake Cortex. *)
(* The script is re-executed from its first line on every UI event; the    *)
(* only state that survives a rerun is st.session_state and the widgets.   *)
(*                                                                         *)
(* Texts are sequences of one-character strings, so that quote stripping   *)
(* and quote escaping are computed and not assumed.  An optional value     *)
(* (None / unbound local) is the empty sequence, a present one <<v>>.      *)
(***************************************************************************)
EXTENDS Integers, Sequences, FiniteSets, TLC

\* ------------------------------------------------------------------ bounds
\* Questions the user may ask in one session.
MaxTurns == 3
\* Length of the conversations get_chat_history is applied to on its own.
MaxLen == 9
\* Length of an uploaded byte sequence.
MaxBytes == 2

\* ------------------------------------------------------- program constants
num_chunks == 3
slide_window == 7

\* ------------------------------------------------------------ input values
Q == "'"
Questions == { <<"q">>, <<"q", Q, "s">> }
\* Texts the completion service may answer a summary request with.
SummaryTexts == { <<"s", Q>> }
\* Texts the completion service may answer the final prompt with.
AnswerTexts == { <<"a">>, <<Q, "a">> }
\* Chunk texts the similarity query may return.
ChunkTexts == { <<"c">>, <<Q>> }
Bytes == { 0, 255 }
Contents == { "x", "y" }

None == <<>>
Some(v) == <<v>>

Max(a, b) == IF a >= b THEN a ELSE b
Min(a, b) == IF a <= b THEN a ELSE b

\* ------------------------------------------------------------ text helpers
NotQuote(c) == c # Q

\* str.replace("'", "")
StripQuotes(s) == SelectSeq(s, NotQuote)

\* str.replace("'", "''")
RECURSIVE EscapeQuotes(_)
EscapeQuotes(s) ==
    IF s = <<>> THEN <<>>
    ELSE (IF Head(s) = Q THEN <<Q, Q>> ELSE <<Head(s)>>) \o EscapeQuotes(Tail(s))

\* sep.join(list)
RECURSIVE JoinSep(_, _)
JoinSep(list, sep) ==
    IF list = <<>> THEN <<>>
    ELSE IF Len(list) = 1 THEN Head(list)
    ELSE Head(list) \o sep \o JoinSep(Tail(list), sep)

\* repr() of one str: single quotes, double quotes when it holds a single one
StrRepr(s) ==
    IF \E i \in 1..Len(s) : s[i] = Q THEN <<"\"">> \o s \o <<"\"">>
    ELSE <<Q>> \o s \o <<Q>>

\* f"{chat_history}" for a list of str
ListRepr(list) ==
    <<"[">> \o JoinSep([i \in 1..Len(list) |-> StrRepr(list[i])], <<",", " ">>) \o <<"]">>

\* Series.replace("'", ""): replaces a VALUE equal to "'", not a substring
SeriesReplace(col) == [i \in 1..Len(col) |-> IF col[i] = <<Q>> THEN <<>> ELSE col[i]]

\* All sequences over S of length 0..n
SeqsUpTo(S, n) == UNION { [1..k -> S] : k \in 0..n }

IsPrefix(s, t) == Len(s) <= Len(t) /\ SubSeq(t, 1, Len(s)) = s

VARIABLES
    pc,                 \* position of the script (or of the function under call)
    cursor,             \* "live" | "None"   (module global)
    uploaded_file,      \* "None" | "file"   (st.file_uploader widget value)
    use_chat_history,   \* st.session_state.use_chat_history
    clear_conversation, \* st.session_state.clear_conversation (button)
    question,           \* value of st.chat_input this rerun (<<>> = None)
    messages_defined,   \* "messages" in st.session_state
    messages,           \* st.session_state.messages
    myquestion,         \* main's question after .replace("'", "")
    chat_history,       \* create_prompt's chat_history when it is a list
    question_summary,   \* optional: result of summarize_question_with_history
    chunks_query,       \* optional: argument get_similar_chunks was called with
    chunks_outcome,     \* "none" | "raised" | "zero" | "rows"
    prompt,             \* optional: the segments create_prompt assembled
    response,           \* optional: RESPONSE of the frame complete() returned
    res_text,           \* optional: main's local res_text (<<>> = unbound)
    ui,                 \* signals the last step put on the page
    raised,             \* exception that left the running function, or "none"
    stages,             \* pipeline stages entered this rerun, in order
    sql,                \* statements handed to a live cursor this rerun
    turns,              \* questions asked so far in the session
    removed,            \* messages the last init_messages() dropped
    file_content,       \* upload_to_snowflake: bytes of the uploaded file
    disk,               \* upload_to_snowflake: optional content of the temp file
    temp_file_path      \* upload_to_snowflake: local bound (TRUE) or unbound

vars == << pc, cursor, uploaded_file, use_chat_history, clear_conversation,
           question, messages_defined, messages, myquestion, chat_history,
           question_summary, chunks_query, chunks_outcome, prompt, response,
           res_text, ui, raised, stages, sql, turns, removed, file_content, disk,
           temp_file_path >>

turnLocals == << myquestion, chat_history, question_summary, chunks_query,
                 chunks_outcome, prompt, response, res_text >>
widgets == << uploaded_file, use_chat_history, clear_conversation, question >>
session == << messages_defined, messages >>
uploadVars == << file_content, disk, temp_file_path >>

Message(role, content) == [role |-> role, content |-> content]
Stmt(kind, arg) == [kind |-> kind, arg |-> arg]

\* cursor.execute(cmd) on the module's cursor: a None cursor raises
\* AttributeError before anything is sent; a live one records the statement.
Executed(kind, arg) == IF cursor = "live" THEN Append(sql, Stmt(kind, arg)) ELSE sql


\* ------------------------------------------------- outcomes of a remote call
\* cursor.execute + fetchall either raise or give rows (texts of one column).
Raise == [raised |-> TRUE, rows |-> <<>>]
Rows(r) == [raised |-> FALSE, rows |-> r]

\* What a call can do this rerun: a None cursor always raises (AttributeError).
Outcomes(rowsets) ==
    IF cursor = "None" THEN {Raise} ELSE {Raise} \cup { Rows(r) : r \in rowsets }

\* --------------------------------------------------------- pure functions
\* Variant of get_chat_history whose range runs to len(messages), so that the
\* pending entry is returned too.
get_chat_history_incl(msgs) ==
    LET start_index == Max(0, Len(msgs) - slide_window)
    IN  [k \in 1..(Len(msgs) - start_index) |-> msgs[start_index + k].content]

\* get_chat_history(): contents of messages[start_index .. len-2] (0-based).
get_chat_history(msgs) ==
    LET start_index == Max(0, Len(msgs) - slide_window)
    IN  [k \in 1..Max(0, (Len(msgs) - 1) - start_index) |-> msgs[start_index + k].content]

\* summarize_question_with_history: the summary it returns for an outcome.
summary_of(o) ==
    IF o.raised THEN <<>>
    ELSE IF o.rows = <<>> THEN <<>>
    ELSE StripQuotes(o.rows[1])

\* The statement text summarize_question_with_history builds (its variable parts).
summary_cmd(history, q) ==
    EscapeQuotes(JoinSep(history, <<" ">>)) \o <<"|">> \o EscapeQuotes(q)

\* create_prompt line 239: the text handed to get_similar_chunks after a summary.
query_after_summary(summary, q) == summary

\* Variant of get_similar_chunks that returns the error text, not "", when
\* the query raises.
similar_chunks_leaky(o) ==
    IF o.raised THEN <<"e", "r", "r">> ELSE JoinSep(SeriesReplace(o.rows), <<>>)

\* get_similar_chunks: what it returns for an outcome.
similar_chunks(o) ==
    IF o.raised THEN <<>> ELSE JoinSep(SeriesReplace(o.rows), <<>>)

outcome_kind(o) ==
    IF o.raised THEN "raised" ELSE IF o.rows = <<>> THEN "zero" ELSE "rows"

\* create_prompt lines 244, 252-274: the three variable segments of the prompt.
history_segment(use, history) == IF use THEN ListRepr(history) ELSE <<>>

assemble(use, history, context, q) ==
    [chat_history |-> history_segment(use, history), context |-> context, question |-> q]

prompt_text(p) ==
    <<"<h>">> \o p.chat_history \o <<"<c>">> \o p.context \o <<"<q>">> \o p.question

\* complete(): the frame it returns (its RESPONSE cell), or None.
complete_result(o) ==
    IF o.raised THEN None
    ELSE IF o.rows = <<>> THEN None
    ELSE Some(o.rows[1])

\* ------------------------------------------------------------------- Init
InitWidgets ==
    /\ uploaded_file = "None"
    /\ use_chat_history = TRUE
    /\ clear_conversation = FALSE
    /\ question = <<>>

InitLocals ==
    /\ myquestion = <<>>
    /\ chat_history = <<>>
    /\ question_summary = None
    /\ chunks_query = None
    /\ chunks_outcome = "none"
    /\ prompt = None
    /\ response = None
    /\ res_text = None

InitUpload ==
    /\ file_content = <<>>
    /\ disk = None
    /\ temp_file_path = FALSE

Init ==
    /\ pc = "idle"
    /\ cursor = "None"
    /\ InitWidgets
    /\ messages_defined = FALSE
    /\ messages = <<>>
    /\ InitLocals
    /\ ui = {}
    /\ raised = "none"
    /\ stages = <<>>
    /\ sql = <<>>
    /\ turns = 0
    /\ removed = 0
    /\ InitUpload

\* ------------------------------------------------------- the page script
\* A UI event starts a rerun of the whole script.  One event per rerun: the
\* chat input, the Start Over button, or another widget (or the first load).
Rerun ==
    /\ pc = "idle"
    /\ \/ /\ turns < MaxTurns
          /\ \E q \in Questions : question' = q
          /\ clear_conversation' = FALSE
          /\ turns' = turns + 1
          /\ UNCHANGED << uploaded_file, use_chat_history >>
       \/ /\ question' = <<>>
          /\ clear_conversation' = TRUE
          /\ UNCHANGED << uploaded_file, use_chat_history, turns >>
       \/ /\ question' = <<>>
          /\ clear_conversation' = FALSE
          /\ \E f \in {"None", "file"} : uploaded_file' = f
          /\ \E h \in BOOLEAN : use_chat_history' = h
          /\ UNCHANGED turns
    /\ pc' = "connect"
    /\ myquestion' = <<>>
    /\ chat_history' = <<>>
    /\ question_summary' = None
    /\ chunks_query' = None
    /\ chunks_outcome' = "none"
    /\ prompt' = None
    /\ response' = None
    /\ res_text' = None
    /\ ui' = {}
    /\ raised' = "none"
    /\ stages' = <<>>
    /\ sql' = <<>>
    /\ removed' = 0
    /\ UNCHANGED << cursor, session, uploadVars >>

\* Lines 20-32: the module-level connection attempt of this rerun.
Connect ==
    /\ pc = "connect"
    /\ \E c \in {"live", "None"} :
          /\ cursor' = c
          /\ ui' = IF c = "None" THEN {"error: connecting"} ELSE {}
    /\ pc' = "details"
    /\ UNCHANGED << widgets, session, turnLocals, raised, stages, sql, turns, removed, uploadVars >>

\* display_snowflake_details()
display_snowflake_details ==
    /\ pc = "details"
    /\ IF cursor = "live"
       THEN /\ sql' = Executed("CURRENT", <<>>)
            /\ \E o \in Outcomes({<<"row">>}) :
                  ui' = IF o.raised THEN {"write: error fetching details"}
                        ELSE {"write: details"}
       ELSE /\ ui' = {"write: no connection"}
            /\ UNCHANGED sql
    /\ pc' = "upload"
    /\ UNCHANGED << cursor, widgets, session, turnLocals, raised, stages, turns, removed, uploadVars >>

\* main lines 48-54.  The call passes one argument to a function of two
\* required parameters: Python raises TypeError before the body runs, and
\* main's except clause reports it.
MainUpload ==
    /\ pc = "upload"
    /\ ui' = IF uploaded_file = "file" THEN {"error: uploading file"} ELSE {}
    /\ pc' = "list"
    /\ UNCHANGED << cursor, widgets, session, turnLocals, raised, stages, sql, turns, removed, uploadVars >>

\* main lines 56-67
ListDocuments ==
    /\ pc = "list"
    /\ IF cursor = "live"
       THEN /\ sql' = Executed("LIST", <<>>)
            /\ \E o \in Outcomes({<<"doc">>}) :
                  ui' = IF o.raised THEN {"error: fetching documents"}
                        ELSE {"dataframe: documents"}
       ELSE /\ ui' = {"error: cursor is not defined"}
            /\ UNCHANGED sql
    /\ pc' = "init"
    /\ UNCHANGED << cursor, widgets, session, turnLocals, raised, stages, turns, removed, uploadVars >>

\* Variant of init_messages that ignores the Start Over button.
init_messages_keep ==
    /\ pc = "init"
    /\ IF ~messages_defined
       THEN messages' = <<>>
       ELSE UNCHANGED messages
    /\ removed' = Len(messages) - Len(messages')
    /\ messages_defined' = TRUE
    /\ ui' = {}
    /\ pc' = "chat_input"
    /\ UNCHANGED << cursor, widgets, turnLocals, raised, stages, sql, turns, uploadVars >>

\* config_options(); init_messages(); the transcript is rendered.
init_messages ==
    /\ pc = "init"
    /\ IF clear_conversation \/ ~messages_defined
       THEN messages' = <<>>
       ELSE UNCHANGED messages
    /\ removed' = Len(messages) - Len(messages')
    /\ messages_defined' = TRUE
    /\ ui' = {}
    /\ pc' = "chat_input"
    /\ UNCHANGED << cursor, widgets, turnLocals, raised, stages, sql, turns, uploadVars >>

\* main lines 76-84: the user message is appended, the question is stripped
\* of quotes and complete() is entered; without a question the rerun ends.
ChatInput ==
    /\ pc = "chat_input"
    /\ IF question # <<>>
       THEN /\ messages' = Append(messages, Message("user", question))
            /\ myquestion' = StripQuotes(question)
            /\ pc' = "create_prompt"
       ELSE /\ pc' = "idle"
            /\ UNCHANGED << messages, myquestion >>
    /\ UNCHANGED << cursor, widgets, messages_defined, chat_history, question_summary,
                    chunks_query, chunks_outcome, prompt, response, res_text,
                    ui, raised, stages, sql, turns, removed, uploadVars >>

\* Variant of create_prompt without the "if chat_history:" test: the
\* summarizer runs whenever use-history is enabled.
create_prompt_always_summarize ==
    /\ pc = "create_prompt"
    /\ IF use_chat_history
       THEN /\ chat_history' = get_chat_history(messages)
            /\ pc' = "summarizing"
            /\ UNCHANGED chunks_query
       ELSE /\ chat_history' = <<>>
            /\ chunks_query' = Some(myquestion)
            /\ pc' = "retrieving"
    /\ UNCHANGED << cursor, widgets, session, myquestion, question_summary, chunks_outcome,
                    prompt, response, res_text, ui, raised, stages, sql, turns, removed, uploadVars >>

\* create_prompt lines 235-244: which retrieval path is taken.
create_prompt ==
    /\ pc = "create_prompt"
    /\ IF use_chat_history
       THEN /\ chat_history' = get_chat_history(messages)
            /\ IF chat_history' # <<>>
               THEN /\ pc' = "summarizing"
                    /\ UNCHANGED chunks_query
               ELSE /\ pc' = "retrieving"
                    /\ chunks_query' = Some(myquestion)
       ELSE /\ chat_history' = <<>>
            /\ chunks_query' = Some(myquestion)
            /\ pc' = "retrieving"
    /\ UNCHANGED << cursor, widgets, session, myquestion, question_summary, chunks_outcome,
                    prompt, response, res_text, ui, raised, stages, sql, turns, removed, uploadVars >>

\* summarize_question_with_history(chat_history, myquestion), then line 239.
summarize_question_with_history ==
    /\ pc = "summarizing"
    /\ stages' = Append(stages, "summarize")
    /\ sql' = Executed("COMPLETE", summary_cmd(chat_history, myquestion))
    /\ \E o \in Outcomes({<<>>} \cup { <<t>> : t \in SummaryTexts }) :
          /\ question_summary' = Some(summary_of(o))
          /\ chunks_query' = Some(query_after_summary(summary_of(o), myquestion))
          /\ ui' = IF o.raised THEN {"error: summarizing"} ELSE {}
    /\ pc' = "retrieving"
    /\ UNCHANGED << cursor, widgets, session, myquestion, chat_history, chunks_outcome,
                    prompt, response, res_text, raised, turns, removed, uploadVars >>

\* get_similar_chunks(chunks_query), then the rest of create_prompt.
get_similar_chunks ==
    /\ pc = "retrieving"
    /\ stages' = stages \o <<"retrieve", "assemble">>
    /\ sql' = Executed("SIMILARITY", chunks_query[1])
    /\ \E o \in Outcomes(SeqsUpTo(ChunkTexts, num_chunks)) :
          /\ chunks_outcome' = outcome_kind(o)
          /\ prompt' = Some(assemble(use_chat_history, chat_history,
                                     similar_chunks(o), myquestion))
          /\ ui' = IF o.raised THEN {"error: fetching similar chunks"} ELSE {}
    /\ pc' = "generating"
    /\ UNCHANGED << cursor, widgets, session, myquestion, chat_history, question_summary,
                    chunks_query, response, res_text, raised, turns, removed, uploadVars >>

\* complete() lines 284-301
complete ==
    /\ pc = "generating"
    /\ stages' = Append(stages, "complete")
    /\ sql' = Executed("COMPLETE", EscapeQuotes(prompt_text(prompt[1])))
    /\ \E o \in Outcomes({<<>>} \cup { <<t>> : t \in AnswerTexts }) :
          /\ response' = complete_result(o)
          /\ ui' = IF o.raised THEN {"error: completing the request"}
                   ELSE IF o.rows = <<>> THEN {"error: no response received"}
                   ELSE {}
    /\ pc' = "displaying"
    /\ UNCHANGED << cursor, widgets, session, myquestion, chat_history, question_summary,
                    chunks_query, chunks_outcome, prompt, res_text, raised, turns, removed, uploadVars >>

\* main lines 86-94: res_text is bound only when a response came back; the
\* append on line 94 reads it either way.
Display ==
    /\ pc = "displaying"
    /\ IF response # None
       THEN /\ res_text' = Some(StripQuotes(response[1]))
            /\ ui' = {"markdown: answer"}
            /\ messages' = Append(messages, Message("assistant", res_text'[1]))
            /\ stages' = Append(stages, "append")
            /\ raised' = "none"
       ELSE /\ ui' = {"error: no response received", "markdown: no response available"}
            /\ raised' = "UnboundLocalError"
            /\ UNCHANGED << res_text, messages, stages >>
    /\ pc' = "idle"
    /\ UNCHANGED << cursor, widgets, messages_defined, myquestion, chat_history,
                    question_summary, chunks_query, chunks_outcome, prompt, response,
                    sql, turns, removed, uploadVars >>

Next ==
    \/ Rerun
    \/ Connect
    \/ display_snowflake_details
    \/ MainUpload
    \/ ListDocuments
    \/ init_messages
    \/ ChatInput
    \/ create_prompt
    \/ summarize_question_with_history
    \/ get_similar_chunks
    \/ complete
    \/ Display

Spec == Init /\ [][Next]_vars


\* ------------------------------------------ upload_to_snowflake, called alone
\* upload_to_snowflake(uploaded_file, cursor) as a call of its own, with both
\* arguments bound: every file operation and the PUT may fail.
mainVars == << widgets, session, turnLocals, stages, turns, removed >>

InitUploadCall ==
    /\ pc = "upload_call"
    /\ cursor \in {"live", "None"}
    /\ file_content \in SeqsUpTo(Bytes, MaxBytes)
    /\ disk = None
    /\ temp_file_path = FALSE
    /\ InitWidgets
    /\ messages_defined = FALSE
    /\ messages = <<>>
    /\ InitLocals
    /\ ui = {}
    /\ raised = "none"
    /\ stages = <<>>
    /\ sql = <<>>
    /\ turns = 0
    /\ removed = 0

\* Lines 111-113, 134-135
UploadEnter ==
    /\ pc = "upload_call"
    /\ IF cursor = "live"
       THEN pc' = "up_create" /\ UNCHANGED ui
       ELSE pc' = "upload_returned" /\ ui' = {"error: no connection for upload"}
    /\ UNCHANGED << cursor, mainVars, raised, sql, uploadVars >>

\* Line 117: NamedTemporaryFile(delete=False) creates the file or raises.
UploadCreate ==
    /\ pc = "up_create"
    /\ \/ disk' = Some(<<>>) /\ pc' = "up_write"
       \/ pc' = "up_except" /\ UNCHANGED disk
    /\ UNCHANGED << cursor, mainVars, ui, raised, sql, file_content, temp_file_path >>

\* Lines 118-119 and the end of the with block: the write may raise (before
\* the path is bound), and so may the close (after it is bound).
UploadWrite ==
    /\ pc = "up_write"
    /\ \/ /\ disk' = Some(file_content)
          /\ temp_file_path' = TRUE
          /\ pc' = "up_put"
       \/ /\ \E n \in 0..Len(file_content) : disk' = Some(SubSeq(file_content, 1, n))
          /\ UNCHANGED temp_file_path
          /\ pc' = "up_except"
       \/ /\ \E n \in 0..Len(file_content) : disk' = Some(SubSeq(file_content, 1, n))
          /\ temp_file_path' = TRUE
          /\ pc' = "up_except"
    /\ UNCHANGED << cursor, mainVars, ui, raised, sql, file_content >>

\* Lines 122-123
UploadPut ==
    /\ pc = "up_put"
    /\ sql' = Append(sql, Stmt("PUT", <<"tmp">>))
    /\ \/ pc' = "up_remove"
       \/ pc' = "up_except"
    /\ UNCHANGED << cursor, mainVars, ui, raised, uploadVars >>

\* Line 126: the first delete.
UploadRemove ==
    /\ pc = "up_remove"
    /\ \/ disk' = None /\ pc' = "up_success"
       \/ pc' = "up_except" /\ UNCHANGED disk
    /\ UNCHANGED << cursor, mainVars, ui, raised, sql, file_content, temp_file_path >>

\* Line 128
UploadSuccess ==
    /\ pc = "up_success"
    /\ ui' = ui \cup {"success: uploaded to stage"}
    /\ pc' = "up_finally"
    /\ UNCHANGED << cursor, mainVars, raised, sql, uploadVars >>

\* Lines 129-130
UploadExcept ==
    /\ pc = "up_except"
    /\ ui' = ui \cup {"error: uploading to Snowflake"}
    /\ pc' = "up_finally"
    /\ UNCHANGED << cursor, mainVars, raised, sql, uploadVars >>

\* Lines 131-133: the finally clause reads temp_file_path, bound or not.
UploadFinally ==
    /\ pc = "up_finally"
    /\ IF ~temp_file_path
       THEN /\ raised' = "UnboundLocalError"
            /\ pc' = "upload_raised"
            /\ UNCHANGED disk
       ELSE IF disk # None
       THEN \/ disk' = None /\ pc' = "upload_returned" /\ UNCHANGED raised
            \/ raised' = "OSError" /\ pc' = "upload_raised" /\ UNCHANGED disk
       ELSE pc' = "upload_returned" /\ UNCHANGED << disk, raised >>
    /\ UNCHANGED << cursor, mainVars, ui, sql, file_content, temp_file_path >>

NextUpload ==
    \/ UploadEnter
    \/ UploadCreate
    \/ UploadWrite
    \/ UploadPut
    \/ UploadRemove
    \/ UploadSuccess
    \/ UploadExcept
    \/ UploadFinally

SpecUpload == InitUploadCall /\ [][NextUpload]_vars

\* --------------------------------------------- get_chat_history, called alone
Roles == {"user", "assistant"}

\* Conversations main can hold while a question is pending: the first and the
\* last message are the user's, and an assistant message follows a user one.
PendingRoles(L) ==
    { r \in [1..L -> Roles] :
        /\ r[1] = "user"
        /\ r[L] = "user"
        /\ \A i \in 2..L : r[i] = "assistant" => r[i-1] = "user" }

InitHistoryCall ==
    /\ pc = "history_call"
    /\ \E L \in 1..MaxLen : \E r \in PendingRoles(L) : \E c \in [1..L -> Contents] :
          messages = [i \in 1..L |-> Message(r[i], <<c[i]>>)]
    /\ messages_defined = TRUE
    /\ chat_history = <<>>
    /\ cursor = "live"
    /\ InitWidgets
    /\ myquestion = <<>>
    /\ question_summary = None
    /\ chunks_query = None
    /\ chunks_outcome = "none"
    /\ prompt = None
    /\ response = None
    /\ res_text = None
    /\ ui = {}
    /\ raised = "none"
    /\ stages = <<>>
    /\ sql = <<>>
    /\ turns = 0
    /\ removed = 0
    /\ InitUpload

HistoryCall ==
    /\ pc = "history_call"
    /\ chat_history' = get_chat_history(messages)
    /\ pc' = "history_done"
    /\ UNCHANGED << cursor, widgets, session, myquestion, question_summary, chunks_query,
                    chunks_outcome, prompt, response, res_text, ui, raised, stages, sql,
                    turns, removed, uploadVars >>

SpecHistory == InitHistoryCall /\ [][HistoryCall]_vars


\* =================================================================== claims
InTurn == pc \in {"create_prompt", "summarizing", "retrieving", "generating", "displaying"}
TurnEnded == pc = "idle" /\ question # <<>>
Last(seq) == seq[Len(seq)]
Count(seq, x) == Cardinality({ i \in 1..Len(seq) : seq[i] = x })
KindCount(k) == Cardinality({ i \in 1..Len(sql) : sql[i].kind = k })

\* C1: every turn ends with exactly one assistant message appended after the
\* user message of that turn, and without an unhandled exception, whatever
\* the outcome of summarizing, retrieving and generating.
C1_TurnEndsWithAssistant ==
    TurnEnded =>
        /\ raised = "none"
        /\ Len(messages) >= 2
        /\ Last(messages).role = "assistant"
        /\ messages[Len(messages) - 1] = Message("user", question)

\* C2: messages strictly alternates user, assistant, ... starting with a user
\* message; a user message without an assistant message after it exists only
\* while its turn is being answered.
C2_Alternation ==
    /\ \A i \in 1..Len(messages) :
          messages[i].role = IF i % 2 = 1 THEN "user" ELSE "assistant"
    /\ Len(messages) % 2 = 1 => InTurn

\* C3: with no connection (cursor is None) nothing in a rerun raises
\* unhandled: the details report no connection, the upload and the listing
\* report an error, and a chat turn ends with an assistant message appended.
C3_NoConnectionNoRaise ==
    cursor = "None" =>
        /\ raised = "none"
        /\ pc = "upload" => ui = {"write: no connection"}
        /\ (pc = "list" /\ uploaded_file = "file") => ui = {"error: uploading file"}
        /\ pc = "init" => ui = {"error: cursor is not defined"}
        /\ TurnEnded => (messages # <<>> /\ Last(messages).role = "assistant")

\* C4: once upload_to_snowflake has returned or raised, the temporary file
\* is not on disk, whichever step failed, and the cleanup did not raise for
\* an unbound temp_file_path.
C4_ScratchFileRemoved ==
    pc \in {"upload_returned", "upload_raised"} =>
        /\ disk = None
        /\ raised # "UnboundLocalError"

\* C5: when the summarizer was called and gave the empty string, the
\* retrieval of that turn is called with the quote-stripped question.
C5_FallbackToQuestion ==
    (question_summary = Some(<<>>) /\ chunks_query # None) =>
        chunks_query = Some(myquestion)

\* C6: when the similarity query raised or returned zero rows, the context
\* segment of the prompt is empty, the completion stage still runs after the
\* retrieval (its statement reaches a live cursor after the similarity one),
\* and a completion that succeeds is appended as the assistant message.
C6_EmptyContextStillCompletes ==
    chunks_outcome \in {"raised", "zero"} =>
        /\ prompt # None
        /\ prompt[1].context = <<>>
        /\ pc \in {"displaying", "idle"} =>
              /\ Len(stages) >= 3
              /\ SubSeq(stages, Len(stages) - (IF Last(stages) = "append" THEN 3 ELSE 2),
                        Len(stages) - (IF Last(stages) = "append" THEN 1 ELSE 0))
                   = <<"retrieve", "assemble", "complete">>
              /\ cursor = "live" =>
                    /\ Len(sql) >= 2
                    /\ Last(sql).kind = "COMPLETE"
                    /\ sql[Len(sql) - 1].kind = "SIMILARITY"
        /\ (pc = "idle" /\ response # None) =>
              /\ raised = "none"
              /\ Last(messages) = Message("assistant", StripQuotes(response[1]))
              /\ messages[Len(messages) - 1] = Message("user", question)

C6_Witness ==
    /\ pc = "idle"
    /\ chunks_outcome = "zero"
    /\ response # None
    /\ Last(messages).role = "assistant"

\* C7: an upload with a live connection issues exactly one PUT and shows
\* exactly one outcome signal, success or error.
UploadSignals == { "success: uploaded", "success: uploaded to stage",
                   "error: uploading file", "error: uploading to Snowflake" }

C7_OnePutOneSignal ==
    (pc = "list" /\ uploaded_file = "file" /\ cursor = "live") =>
        /\ KindCount("PUT") = 1
        /\ Cardinality(ui \cap UploadSignals) = 1

\* C8: for a conversation of length L whose last entry is the pending
\* question, get_chat_history returns at most min(L-1, 7) entries: the
\* contents of the messages right before the pending one, in their order,
\* the pending one never among them.
C8_SlidingWindow ==
    pc = "history_done" =>
        LET L == Len(messages)
            n == Len(chat_history)
        IN  /\ n <= Min(L - 1, 7)
            /\ \A k \in 1..n : chat_history[k] = messages[(L - 1) - n + k].content

C8_Witness ==
    /\ pc = "history_done"
    /\ Len(messages) = 9
    /\ Len(chat_history) = 6
    /\ chat_history[1] # chat_history[2]

\* C9 as stated: the stages run in the order summarize, retrieve, assemble,
\* complete, append; with use-history enabled the summarizer runs once before
\* the one retrieval, which uses its output; with it disabled the summarizer
\* never runs and the chat-history segment is empty; retrieval runs once,
\* before the completion, and no remote call is repeated.
StageRank(st) ==
    CASE st = "summarize" -> 1
      [] st = "retrieve" -> 2
      [] st = "assemble" -> 3
      [] st = "complete" -> 4
      [] st = "append" -> 5

StagesOrdered ==
    \A i, j \in 1..Len(stages) : i < j => StageRank(stages[i]) < StageRank(stages[j])

NoRepeatedCall == \A i, j \in 1..Len(sql) : i < j => sql[i] # sql[j]

RetrievedOnce ==
    /\ Count(stages, "retrieve") = 1
    /\ KindCount("SIMILARITY") = (IF cursor = "live" THEN 1 ELSE 0)

CompletedOnce ==
    /\ Count(stages, "complete") = 1
    /\ cursor = "live" => (sql # <<>> /\ Last(sql).kind = "COMPLETE")

HistoryDisabledCase ==
    ~use_chat_history =>
        /\ Count(stages, "summarize") = 0
        /\ prompt[1].chat_history = <<>>
        /\ chunks_query = Some(myquestion)

SummarizerFeedsRetrieval ==
    /\ Count(stages, "summarize") = 1
    /\ question_summary # None
    /\ chunks_query = question_summary

C9_Original ==
    /\ StagesOrdered
    /\ NoRepeatedCall
    /\ prompt # None =>
          /\ RetrievedOnce
          /\ HistoryDisabledCase
          /\ use_chat_history => SummarizerFeedsRetrieval
    /\ TurnEnded => CompletedOnce

\* C9 amended: as above, except that with use-history enabled the summarizer
\* runs (once, before the retrieval, which uses its output) only when the
\* chat history is not empty; with an empty history it does not run and the
\* retrieval uses the quote-stripped question.
C9_StageOrder ==
    /\ StagesOrdered
    /\ NoRepeatedCall
    /\ prompt # None =>
          /\ RetrievedOnce
          /\ HistoryDisabledCase
          /\ (use_chat_history /\ chat_history # <<>>) => SummarizerFeedsRetrieval
          /\ (use_chat_history /\ chat_history = <<>>) =>
                /\ Count(stages, "summarize") = 0
                /\ chunks_query = Some(myquestion)
    /\ TurnEnded => CompletedOnce

C9_Witness ==
    /\ TurnEnded
    /\ use_chat_history
    /\ stages = <<"summarize", "retrieve", "assemble", "complete", "append">>
    /\ question_summary # Some(<<>>)

\* C10: Start Over empties the messages on the rerun it triggers, whatever
\* their number; no other step removes a message: every other step leaves
\* the earlier messages unchanged and in place.
C10_OnlyResetRemoves ==
    [][ /\ (pc = "init" /\ clear_conversation) => messages' = <<>>
        /\ ~(pc = "init" /\ clear_conversation) => IsPrefix(messages, messages')
      ]_vars

C10_Witness ==
    /\ pc = "chat_input"
    /\ clear_conversation
    /\ removed >= 2
    /\ messages = <<>>

====
